---- MODULE Spec2Model ----
(***************************************************************************)
(* HelixFlow: the storage / relationship core (helixflow-core), its        *)
(* hard-coded TestBackend and the SurrealDb backend (helixflow-surreal).   *)
(*                                                                         *)
(* Every operation of the program is one action.  An action records the    *)
(* call it made in `op` (who was called, with what, what came back and     *)
(* which backend calls were issued on the way); the SurrealDb tables and   *)
(* the properties of the HelixFlow window are the state that outlives it.  *)
(***************************************************************************)
EXTENDS Integers, Sequences, FiniteSets, TLC

VARIABLES
    tasks,      \* SurrealDb table "Tasks": a set of SurrealTask records
    tasklists,  \* SurrealDb table "Tasklists": a set of SurrealTaskList records
    contains,   \* SurrealDb relation table "contains": a set of Link records
    op,         \* the last completed call
    acked,      \* history: Tasks whose CRUD::create on SurrealDb returned Ok(())
    ackedLists, \* history: TaskLists whose CRUD::create on SurrealDb returned Ok(())
    linked,     \* history: <<TaskList, Task>> whose create_linked_item on SurrealDb returned Ok(())
    states,     \* SurrealDb table "State": a set of SurrealState records
    ui          \* the HelixFlow window: its properties, its callback, the request in flight

vars == <<tasks, tasklists, contains, op, acked, ackedLists, linked, states, ui>>
db == <<tasks, tasklists, contains>>

-----------------------------------------------------------------------------
(* Bounds of the model.                                                    *)

MaxTasks == 2       \* records the Tasks table may hold
MaxTaskLists == 1   \* records the Tasklists table may hold
MaxBacklogs == 2    \* TaskLists the starts of the application may have created

-----------------------------------------------------------------------------
(* Values.                                                                 *)

\* Option<T> is a sequence of length 0 (None) or 1 (Some).
None == << >>
Some(x) == <<x>>

\* Cow<'static, str>: the text and the variant that holds it.
Borrowed(s) == [cow |-> "Borrowed", s |-> s]
Owned(s) == [cow |-> "Owned", s |-> s]

\* The identifiers the TestBackend knows.
TASK1_ID == "0196b4c9-8447-7959-ae1f-72c7c8a3dd36"
TASK2_ID == "0196ca5f-d934-7ec8-b042-ae37b94b8432"
TASKLIST1_ID == "0196fe23-7c01-7d6b-9e09-5968eb370549"
\* An identifier no backend knows beforehand.
OTHER_ID == "0196b4c9-8447-78db-ae8a-be68a8095aa2"

Uuid == {TASK1_ID, TASK2_ID, TASKLIST1_ID, OTHER_ID}
\* The identifiers callers give to Tasks and to TaskLists.
TaskIds == {TASK1_ID, TASK2_ID, OTHER_ID}
TaskListIds == {TASKLIST1_ID, OTHER_ID}

Task(name, id, description) == [name |-> name, id |-> id, description |-> description]
TaskList(name, id) == [name |-> name, id |-> id]

\* #[derive(PartialEq)] on Task / TaskList: field by field; a Cow compares by its text.
TaskEq(a, b) == a.name.s = b.name.s /\ a.id = b.id /\ a.description = b.description
TaskListEq(a, b) == a.name.s = b.name.s /\ a.id = b.id

\* The entities a caller hands in.
TaskNames == {Borrowed("FAIL"), Owned("FAIL"), Borrowed("MISMATCH"), Borrowed("A")}
Descriptions == {None, Some("d")}
TaskValues == {Task(n, i, d) : n \in TaskNames, i \in TaskIds, d \in Descriptions}
TaskListValues == {TaskList(Borrowed("Backlog"), i) : i \in TaskListIds}

-----------------------------------------------------------------------------
(* Results and errors.                                                     *)

Ok(v) == [tag |-> "Ok", val |-> v]
Err(e) == [tag |-> "Err", val |-> e]
\* An abort (todo!(), unwrap() on Err): no value is returned to the caller.
Panic(msg) == [tag |-> "Panic", val |-> msg]

IsOk(r) == r.tag = "Ok"
IsErr(r) == r.tag = "Err"
IsPanic(r) == r.tag = "Panic"

BackendError(msg) == [kind |-> "BackendError", msg |-> msg]
Mismatch(expected, actual) == [kind |-> "Mismatch", expected |-> expected, actual |-> actual]
InvalidID(id) == [kind |-> "InvalidID", id |-> id]
NotFound(itemtype, id) == [kind |-> "NotFound", itemtype |-> itemtype, id |-> id]
RelationshipBetweenErrors(left, right) ==
    [kind |-> "RelationshipBetweenErrors", left |-> left, right |-> right]

-----------------------------------------------------------------------------
(* Relationships.                                                          *)

\* Contains<LEFT, RIGHT>: each slot is a HelixFlowResult.
Contains(left, sortorder, right) == [left |-> left, sortorder |-> sortorder, right |-> right]

\* Linkable<Contains<TaskList, Task>>::link for TaskList.
link(tasklist, task) == Contains(Ok(tasklist), "a", Ok(task))

\* Try::branch for Contains.
Contains_branch(self) ==
    IF IsOk(self.left) /\ IsOk(self.right)
    THEN [flow |-> "Continue", val |-> self]
    ELSE [flow |-> "Break", val |-> self]

\* FromResidual<Contains<LEFT, RIGHT>> for HelixFlowResult<()>: todo!().
Result_from_residual(residual) == Panic("not yet implemented")

\* `contains?` inside a function that returns HelixFlowResult<()> and then Ok(()).
Try_Contains(self) ==
    LET b == Contains_branch(self)
    IN  IF b.flow = "Continue" THEN Ok("()") ELSE Result_from_residual(b.val)

\* The relationships a caller hands in; an unresolved slot holds the error of the
\* lookup or creation that failed.
LeftErrors == {NotFound("TaskList", OTHER_ID)}
RightErrors == {BackendError("connection lost")}
Sortorders == {"a", "b"}
LeftSlots == {Ok(tl) : tl \in TaskListValues} \cup {Err(e) : e \in LeftErrors}
RightSlots == {Ok(t) : t \in TaskValues} \cup {Err(e) : e \in RightErrors}
ContainsValues == {Contains(l, s, r) : l \in LeftSlots, s \in Sortorders, r \in RightSlots}

-----------------------------------------------------------------------------
(* TestBackend (helixflow-core): hard-coded, keeps no state.               *)
(* A called function is modelled by what it returns (`ret`) and, for a     *)
(* parameter passed by reference, by the referent after the call (`item`). *)

\* Uuid::now_v7() inside a call that already holds `used`: an identifier not in use.
NowV7(used) == Uuid \ used

TestBackend_create(task, fresh) ==
    [item |-> task,
     ret  |-> CASE task.name = Borrowed("FAIL") -> Err(BackendError("Failed to create task"))
                [] task.name = Borrowed("MISMATCH") ->
                       Ok(Task(task.name, fresh, task.description))
                [] OTHER -> Ok(task)]

TestBackend_get(id) ==
    CASE id = TASK1_ID -> Ok(Task(Borrowed("Task 1"), id, None))
      [] id = TASK2_ID -> Ok(Task(Borrowed("Task 2"), id, None))
      [] OTHER -> Err(NotFound("Task", id))

TestBackend_create_tasklist(item) ==
    [item |-> item, ret |-> Panic("not yet implemented")]

TestBackend_get_tasklist(id) ==
    CASE id = TASKLIST1_ID -> Ok(TaskList(Borrowed("Test TaskList 1"), id))
      [] OTHER -> Err(NotFound("Tasklist", id))

TestBackend_create_linked_item(lnk, fresh) ==
    IF ~IsOk(lnk.left) THEN Panic("called Result::unwrap() on an Err value")
    ELSE LET tasklist == lnk.left.val
         IN  IF tasklist.id = TASKLIST1_ID
             THEN IF ~IsOk(lnk.right) THEN Panic("called Result::unwrap() on an Err value")
                  ELSE Ok(Contains(Ok(tasklist), lnk.sortorder,
                                   TestBackend_create(lnk.right.val, fresh).ret))
             ELSE Err(NotFound("Tasklist", tasklist.id))

\* The relationships built on the TaskList the backend knows under that id.
TestBackend_get_linked_items_stored_left(left) ==
    IF left.id = TASKLIST1_ID
    THEN LET stored == TestBackend_get_tasklist(left.id).val
         IN  Ok(<<link(stored, Task(Borrowed("Task 1"), TASK1_ID, None)),
                  link(stored, Task(Borrowed("Task 2"), TASK2_ID, None))>>)
    ELSE Err(NotFound("Tasklist", left.id))

TestBackend_get_linked_items(left) ==
    IF left.id = TASKLIST1_ID
    THEN Ok(<<link(left, Task(Borrowed("Task 1"), TASK1_ID, None)),
              link(left, Task(Borrowed("Task 2"), TASK2_ID, None))>>)
    ELSE Err(NotFound("Tasklist", left.id))

-----------------------------------------------------------------------------
(* SurrealDb backend (helixflow-surreal): record forms and conversions.    *)

\* surrealdb::sql::Thing: table name and Id; an Id is a Uuid or of another kind.
Thing(tb, id) == [tb |-> tb, id |-> id]
IdUuid(u) == [kind |-> "Uuid", v |-> u]
IdString(t) == [kind |-> "String", v |-> t]
IdNumber(n) == [kind |-> "Number", n |-> n]

\* Id::to_string(): a number in decimal digits; a string id that is a plain
\* identifier (letters and digits, as the ids the database generates) as it is.
Id_to_string(id) == IF id.kind = "Number" THEN ToString(id.n) ELSE id.v

SurrealTask(name, id, description) == [name |-> name, id |-> id, description |-> description]
SurrealTaskList(name, id) == [name |-> name, id |-> id]
Link(in, out) == [in |-> in, out |-> out]

\* The resource a lookup names: ("Tasks", *id) and ("Tasklists", *id).
TaskThing_wrong_table(id) == Thing("Tasklists", IdUuid(id))
TaskThing(id) == Thing("Tasks", IdUuid(id))
TaskListThing(id) == Thing("Tasklists", IdUuid(id))

\* impl From<&Task> for SurrealTask
SurrealTask_from(task) ==
    SurrealTask(task.name, Thing("Tasks", IdUuid(task.id)), task.description)

\* A record id of another kind replaced by a default identifier.
Task_try_from_defaulting(task) ==
    IF task.id.id.kind = "Uuid"
    THEN Ok(Task(task.name, task.id.id.v, task.description))
    ELSE Ok(Task(task.name, OTHER_ID, task.description))

\* impl TryFrom<SurrealTask> for Task
Task_try_from(task) ==
    IF task.id.id.kind = "Uuid"
    THEN Ok(Task(task.name, task.id.id.v, task.description))
    ELSE Err(InvalidID(Id_to_string(task.id.id)))

\* impl From<&TaskList> for SurrealTaskList
SurrealTaskList_from(tasklist) ==
    SurrealTaskList(tasklist.name, Thing("Tasklists", IdUuid(tasklist.id)))

\* impl TryFrom<SurrealTaskList> for TaskList
TaskList_try_from(tasklist) ==
    IF tasklist.id.id.kind = "Uuid"
    THEN Ok(TaskList(tasklist.name, tasklist.id.id.v))
    ELSE Err(InvalidID(Id_to_string(tasklist.id.id)))

-----------------------------------------------------------------------------
(* The database engine behind Surreal<C>, as the backend's calls use it.   *)
(* An answer is what the driver call returns: Err(text), or Ok of an       *)
(* Option / Vec of records read back from the wire (text is Owned).        *)

Deserialized(record) == [record EXCEPT !.name = Owned(@.s)]

\* db.create(table).content(record): refuses a record id that exists.
Engine_create(table, content) ==
    IF \E r \in table : r.id = content.id
    THEN [table |-> table, answer |-> Err("Database record already exists")]
    ELSE [table |-> table \cup {Deserialized(content)},
          answer |-> Ok(Some(Deserialized(content)))]

\* db.select((table, id))
Engine_select(table, thing) ==
    IF \E r \in table : r.id = thing
    THEN Ok(Some(CHOOSE r \in table : r.id = thing))
    ELSE Ok(None)

\* db.insert("contains").relation(link): one more edge record.  Two edges between
\* the same records never arise (the out record is created by the same call), so
\* the table is kept as the set of its (in, out) pairs.
\* `up` tells whether the connection still holds when the call is made.
Engine_insert_relation(table, lnk, up) ==
    IF up
    THEN [table |-> table \cup {lnk}, answer |-> Ok(<<lnk>>)]
    ELSE [table |-> table, answer |-> Err("connection lost")]

-----------------------------------------------------------------------------
(* SurrealDb: Store<Task>, Store<TaskList>, Relate<Contains<TaskList,Task>> *)
(* Each takes the driver's answer(s) to the call(s) it makes.              *)

\* The caller's task given the id of the stored record (create taking &mut Task).
SurrealDb_create_assigning_id(task, answer) ==
    LET ret == IF IsErr(answer) THEN Err(BackendError(answer.val))
               ELSE IF answer.val = None
                    THEN Err(BackendError("Creating new record in SurrealDb"))
                    ELSE Task_try_from(answer.val[1])
    IN  [item |-> IF IsOk(ret) THEN [task EXCEPT !.id = ret.val.id] ELSE task,
         ret  |-> ret]

\* blocking::SurrealDb::create (Store<Task>)
SurrealDb_create(task, answer) ==
    [item |-> task,
     ret  |-> IF IsErr(answer) THEN Err(BackendError(answer.val))
              ELSE IF answer.val = None
                   THEN Err(BackendError("Creating new record in SurrealDb"))
                   ELSE Task_try_from(answer.val[1])]

\* NotFound tagged with the table name instead of the entity-type name.
SurrealDb_get_table_tag(id, answer) ==
    IF IsErr(answer) THEN Err(BackendError(answer.val))
    ELSE IF answer.val # None THEN Task_try_from(answer.val[1])
         ELSE Err(NotFound("Tasks", id))

\* blocking::SurrealDb::get (Store<Task>)
SurrealDb_get(id, answer) ==
    IF IsErr(answer) THEN Err(BackendError(answer.val))
    ELSE IF answer.val # None THEN Task_try_from(answer.val[1])
         ELSE Err(NotFound("Task", id))

\* blocking::SurrealDb::create (Store<TaskList>)
SurrealDb_create_tasklist(tasklist, answer) ==
    [item |-> tasklist,
     ret  |-> IF IsErr(answer) THEN Err(BackendError(answer.val))
              ELSE IF answer.val = None
                   THEN Err(BackendError("Creating new record in SurrealDb"))
                   ELSE TaskList_try_from(answer.val[1])]

\* blocking::SurrealDb::get (Store<TaskList>)
SurrealDb_get_tasklist(id, answer) ==
    IF IsErr(answer) THEN Err(BackendError(answer.val))
    ELSE IF answer.val # None THEN TaskList_try_from(answer.val[1])
         ELSE Err(NotFound("TaskList", id))

\* The Task created and the link inserted for the TaskList the caller named,
\* without looking the TaskList up first.
SurrealDb_create_linked_item_unresolved(lnk, tk, tl, ct, up) ==
    IF ~IsOk(lnk.left) \/ ~IsOk(lnk.right)
    THEN [ret |-> Panic("called Result::unwrap() on an Err value"), tasks |-> tk, contains |-> ct]
    ELSE
    LET tasklist == lnk.left.val
        task == lnk.right.val
        created == Engine_create(tk, SurrealTask_from(task))
        db_task == SurrealDb_create(task, created.answer).ret
        inserted ==
            Engine_insert_relation(ct,
                Link(SurrealTaskList_from(tasklist).id, SurrealTask_from(db_task.val).id), up)
    IN  IF ~IsOk(db_task) THEN [ret |-> db_task, tasks |-> created.table, contains |-> ct]
        ELSE IF IsErr(inserted.answer)
             THEN [ret |-> Err(BackendError(inserted.answer.val)),
                   tasks |-> created.table, contains |-> ct]
             ELSE [ret |-> Ok(Contains(Ok(tasklist), "a", Ok(db_task.val))),
                   tasks |-> created.table, contains |-> inserted.table]

\* The Task created before the TaskList is looked up.
SurrealDb_create_linked_item_task_first(lnk, tk, tl, ct, up) ==
    IF ~IsOk(lnk.left) \/ ~IsOk(lnk.right)
    THEN [ret |-> Panic("called Result::unwrap() on an Err value"), tasks |-> tk, contains |-> ct]
    ELSE
    LET tasklist == lnk.left.val
        task == lnk.right.val
        created == Engine_create(tk, SurrealTask_from(task))
        db_task == SurrealDb_create(task, created.answer).ret
        db_tasklist ==
            SurrealDb_get_tasklist(tasklist.id,
                Engine_select(tl, Thing("Tasklists", IdUuid(tasklist.id))))
        inserted ==
            Engine_insert_relation(ct,
                Link(SurrealTaskList_from(db_tasklist.val).id, SurrealTask_from(db_task.val).id),
                up)
    IN  IF ~IsOk(db_task) THEN [ret |-> db_task, tasks |-> created.table, contains |-> ct]
        ELSE IF ~IsOk(db_tasklist)
             THEN [ret |-> db_tasklist, tasks |-> created.table, contains |-> ct]
        ELSE IF IsErr(inserted.answer)
             THEN [ret |-> Err(BackendError(inserted.answer.val)),
                   tasks |-> created.table, contains |-> ct]
             ELSE [ret |-> Ok(Contains(Ok(db_tasklist.val), "a", Ok(db_task.val))),
                   tasks |-> created.table, contains |-> inserted.table]

\* blocking::SurrealDb::create_linked_item on the tables tk (Tasks), tl (Tasklists)
\* and ct (contains): get(TaskList), then create(Task), then insert the link, each
\* step its own driver call (the code notes "TODO make this atomic").  `up` tells
\* whether the connection still holds at the insert.
\* Gives the value returned and the tables as the call leaves them.
SurrealDb_create_linked_item(lnk, tk, tl, ct, up) ==
    IF ~IsOk(lnk.left) \/ ~IsOk(lnk.right)
    THEN [ret |-> Panic("called Result::unwrap() on an Err value"), tasks |-> tk, contains |-> ct]
    ELSE
    LET tasklist == lnk.left.val
        task == lnk.right.val
        db_tasklist ==
            SurrealDb_get_tasklist(tasklist.id,
                Engine_select(tl, Thing("Tasklists", IdUuid(tasklist.id))))
        created == Engine_create(tk, SurrealTask_from(task))
        db_task == SurrealDb_create(task, created.answer).ret
        inserted ==
            Engine_insert_relation(ct,
                Link(SurrealTaskList_from(db_tasklist.val).id, SurrealTask_from(db_task.val).id),
                up)
    IN  IF ~IsOk(db_tasklist) THEN [ret |-> db_tasklist, tasks |-> tk, contains |-> ct]
        ELSE IF ~IsOk(db_task) THEN [ret |-> db_task, tasks |-> created.table, contains |-> ct]
        ELSE IF IsErr(inserted.answer)
             THEN [ret |-> Err(BackendError(inserted.answer.val)),
                   tasks |-> created.table, contains |-> ct]
             ELSE [ret |-> Ok(Contains(Ok(db_tasklist.val), "a", Ok(db_task.val))),
                   tasks |-> created.table, contains |-> inserted.table]

\* blocking::SurrealDb::get_linked_items: todo!().
SurrealDb_get_linked_items(left) == Panic("not yet implemented")

-----------------------------------------------------------------------------
(* helixflow-core: the create-then-verify protocol.                        *)

Unit == "()"

\* ITEM's PartialEq, for the two ITEMs the program has.
ItemEq(a, b) ==
    IF "description" \in DOMAIN a THEN TaskEq(a, b)
    ELSE IF "visible_backlog" \in DOMAIN a THEN a = b
         ELSE TaskListEq(a, b)

\* A backend failure reported as a generic BackendError whatever it was.
CRUD_create_wrapping(created) ==
    [self |-> created.item,
     ret  |-> IF IsErr(created.ret) THEN Err(BackendError("create failed"))
              ELSE IF ~IsOk(created.ret) THEN created.ret
              ELSE IF ItemEq(created.ret.val, created.item) THEN Ok(Unit)
                   ELSE Err(Mismatch(created.item, created.ret.val))]

\* Mismatch built with its two values swapped.
CRUD_create_swapped(created) ==
    [self |-> created.item,
     ret  |-> IF ~IsOk(created.ret) THEN created.ret
              ELSE IF ItemEq(created.ret.val, created.item) THEN Ok(Unit)
                   ELSE Err(Mismatch(created.ret.val, created.item))]

\* The stored record trusted without comparing it.
CRUD_create_unverified(created) ==
    [self |-> created.item,
     ret  |-> IF ~IsOk(created.ret) THEN created.ret ELSE Ok(Unit)]

\* impl<ITEM> CRUD for ITEM::create; `created` is what Store::create gave:
\* its return value and the item after the call.
CRUD_create(created) ==
    [self |-> created.item,
     ret  |-> IF ~IsOk(created.ret) THEN created.ret
              ELSE IF ItemEq(created.ret.val, created.item) THEN Ok(Unit)
                   ELSE Err(Mismatch(created.item, created.ret.val))]

\* A failed lookup reported as a generic BackendError.
CRUD_get_wrapping(got) == IF IsErr(got) THEN Err(BackendError("get failed")) ELSE got

\* impl<ITEM> CRUD for ITEM::get; `got` is what Store::get gave.
CRUD_get(got) == got

\* The backend called without looking at the slots first.
Link_create_linked_item_unchecked(self, created) ==
    [calls |-> <<"Relate::create_linked_item">>,
     ret   |-> IF ~IsOk(created) THEN created
               ELSE IF ~IsOk(self.right) THEN self.right
               ELSE IF ~IsOk(created.val.right) THEN created.val.right
               ELSE IF TaskEq(created.val.right.val, self.right.val) THEN Ok(Unit)
               ELSE Err(Mismatch(self.right.val, created.val.right.val))]

\* The returned Right accepted as soon as it is Ok.
Link_create_linked_item_unverified(self, created) ==
    IF IsOk(self.left) /\ IsOk(self.right)
    THEN [calls |-> <<"Relate::create_linked_item">>,
          ret   |-> IF ~IsOk(created) THEN created
                    ELSE IF IsOk(created.val.right) THEN Ok(Unit) ELSE created.val.right]
    ELSE [calls |-> << >>,
          ret   |-> IF ~IsOk(self.left) THEN self.left ELSE self.right]

\* The returned Left compared with the intended Left as well.
Link_create_linked_item_verifying_left(self, created) ==
    IF IsOk(self.left) /\ IsOk(self.right)
    THEN [calls |-> <<"Relate::create_linked_item">>,
          ret   |-> IF ~IsOk(created) THEN created
                    ELSE IF ~IsOk(created.val.right) THEN created.val.right
                    ELSE IF ~TaskEq(created.val.right.val, self.right.val)
                         THEN Err(Mismatch(self.right.val, created.val.right.val))
                    ELSE IF ~IsOk(created.val.left) THEN created.val.left
                    ELSE IF TaskListEq(created.val.left.val, self.left.val) THEN Ok(Unit)
                         ELSE Err(Mismatch(self.left.val, created.val.left.val))]
    ELSE [calls |-> << >>,
          ret   |-> IF ~IsOk(self.left) THEN self.left ELSE self.right]

\* The error in the returned Right slot replaced by a generic BackendError.
Link_create_linked_item_masking(self, created) ==
    IF IsOk(self.left) /\ IsOk(self.right)
    THEN [calls |-> <<"Relate::create_linked_item">>,
          ret   |-> IF ~IsOk(created) THEN created
                    ELSE IF ~IsOk(created.val.right)
                         THEN Err(BackendError("linked creation failed"))
                    ELSE IF TaskEq(created.val.right.val, self.right.val) THEN Ok(Unit)
                         ELSE Err(Mismatch(self.right.val, created.val.right.val))]
    ELSE [calls |-> << >>,
          ret   |-> IF ~IsOk(self.left) THEN self.left ELSE self.right]

\* A failed backend call issued a second time.
Link_create_linked_item_retrying(self, created) ==
    IF IsOk(self.left) /\ IsOk(self.right)
    THEN [calls |-> IF IsOk(created) /\ IsOk(created.val.right)
                    THEN <<"Relate::create_linked_item">>
                    ELSE <<"Relate::create_linked_item", "Relate::create_linked_item">>,
          ret   |-> IF ~IsOk(created) THEN created
                    ELSE IF ~IsOk(created.val.right) THEN created.val.right
                    ELSE IF TaskEq(created.val.right.val, self.right.val) THEN Ok(Unit)
                         ELSE Err(Mismatch(self.right.val, created.val.right.val))]
    ELSE [calls |-> << >>,
          ret   |-> IF ~IsOk(self.left) THEN self.left ELSE self.right]

\* The slots of a broken relationship looked at Right first.
Link_create_linked_item_right_first(self, created) ==
    IF IsOk(self.left) /\ IsOk(self.right)
    THEN [calls |-> <<"Relate::create_linked_item">>,
          ret   |-> IF ~IsOk(created) THEN created
                    ELSE IF ~IsOk(created.val.right) THEN created.val.right
                    ELSE IF TaskEq(created.val.right.val, self.right.val) THEN Ok(Unit)
                         ELSE Err(Mismatch(self.right.val, created.val.right.val))]
    ELSE [calls |-> << >>,
          ret   |-> IF ~IsOk(self.right) THEN self.right ELSE self.left]

\* impl Link for Contains<TaskList, Task>::create_linked_item; `created` is what
\* Relate::create_linked_item gives for this relationship when it is called.
\* Gives the value returned and the backend calls made.
Link_create_linked_item(self, created) ==
    IF IsOk(self.left) /\ IsOk(self.right)
    THEN [calls |-> <<"Relate::create_linked_item">>,
          ret   |-> IF ~IsOk(created) THEN created
                    ELSE LET expected == self.right.val
                         IN  IF IsOk(created.val.right)
                             THEN IF TaskEq(created.val.right.val, expected)
                                  THEN Ok(Unit)
                                  ELSE Err(Mismatch(expected, created.val.right.val))
                             ELSE created.val.right]
    ELSE [calls |-> << >>,
          ret   |-> IF ~IsOk(self.left) THEN self.left ELSE self.right]

\* impl Linkable<Contains<TaskList, Task>> for TaskList::get_linked_items
Linkable_get_linked_items(got) == got

-----------------------------------------------------------------------------
(* non_blocking: the async create.  Its StorageBackend::create returns an  *)
(* anyhow::Result, so every backend failure reaches CRUD::create as an     *)
(* anyhow::Error and leaves it as BackendError (#[from] anyhow::Error).    *)

Anyhow(msg) == [kind |-> "anyhow::Error", msg |-> msg]

\* #[error("task id ({id:?}) is not a valid UUID v7")]
InvalidID_display(e) == "task id (\"" \o e.id \o "\") is not a valid UUID v7"

\* non_blocking::TestBackend::create
NonBlocking_TestBackend_create(task, fresh) ==
    [item |-> task,
     ret  |-> CASE task.name = Borrowed("FAIL") -> Err(Anyhow("Taskname: FAIL"))
                [] task.name = Borrowed("MISMATCH") ->
                       Ok(Task(task.name, fresh, task.description))
                [] OTHER -> Ok(task)]

\* non_blocking::SurrealDb::create
NonBlocking_SurrealDb_create(task, answer) ==
    [item |-> task,
     ret  |-> IF IsErr(answer) THEN Err(Anyhow(answer.val))
              ELSE IF answer.val = None
                   THEN Err(Anyhow("Creating new record in SurrealDb"))
                   ELSE LET checktask == Task_try_from(answer.val[1])
                        IN  IF IsOk(checktask) THEN checktask
                            ELSE Err(Anyhow(InvalidID_display(checktask.val)))]

\* non_blocking: impl CRUD for Task::create
NonBlocking_CRUD_create(created) ==
    [self |-> created.item,
     ret  |-> IF IsErr(created.ret) THEN Err(BackendError(created.ret.val.msg))
              ELSE IF TaskEq(created.ret.val, created.item) THEN Ok(Unit)
                   ELSE Err(Mismatch(created.item, created.ret.val))]

-----------------------------------------------------------------------------
(* helixflow-slint: the records of the user interface and their            *)
(* conversions.  A SharedString is its text.                               *)

\* Task::new(name, description): the id is Uuid::now_v7(), here `fresh`.
Task_new(name, description, fresh) == Task(name, fresh, description)
\* TaskList::new(name)
TaskList_new(name, fresh) == TaskList(name, fresh)

Uuid_nil == "00000000-0000-0000-0000-000000000000"
\* TASK1_ID written without hyphens and in upper case, and an identifier in braces.
TASK1_SIMPLE == "0196B4C984477959AE1F72C7C8A3DD36"
OTHER_BRACED == "{0196b4c9-8447-78db-ae8a-be68a8095aa2}"

\* Uuid::try_parse(text): any of the textual forms of an identifier, in either
\* case; every other text is an error.
Uuid_try_parse(text) ==
    CASE text \in Uuid -> Ok(text)
      [] text = Uuid_nil -> Ok(Uuid_nil)
      [] text = TASK1_SIMPLE -> Ok(TASK1_ID)
      [] text = OTHER_BRACED -> Ok(OTHER_ID)
      [] OTHER -> Err("invalid UUID")

\* Display of a Uuid: lower case, hyphenated, which is the text a Uuid is
\* written as here.
Uuid_to_string(id) == id

SlintTask(name, id) == [name |-> name, id |-> id]
SlintTaskList(name, id) == [name |-> name, id |-> id]

\* An identifier that does not parse replaced by a new one.
Task_try_from_slint_defaulting(task, fresh) ==
    IF task.id = ""
    THEN Ok(Task_new(Owned(task.name), None, fresh))
    ELSE LET id == Uuid_try_parse(task.id)
         IN  IF IsErr(id) THEN Ok(Task(Owned(task.name), fresh, None))
             ELSE Ok(Task(Owned(task.name), id.val, None))

\* impl TryFrom<SlintTask> for Task
Task_try_from_slint(task, fresh) ==
    IF task.id = ""
    THEN Ok(Task_new(Owned(task.name), None, fresh))
    ELSE LET id == Uuid_try_parse(task.id)
         IN  IF IsErr(id) THEN Err(InvalidID(task.id))
             ELSE Ok(Task(Owned(task.name), id.val, None))

\* impl From<Task> for SlintTask
SlintTask_from(task) == SlintTask(task.name.s, Uuid_to_string(task.id))

\* impl From<TaskList> for SlintTaskList
SlintTaskList_from(tasklist) == SlintTaskList(tasklist.name.s, Uuid_to_string(tasklist.id))

\* The texts a user types as a task name and the ids a SlintTask may carry.
UiTaskNames == {"Task 1", "FAIL"}
SlintIds == {"", TASK1_ID, TASK1_SIMPLE, OTHER_BRACED, Uuid_nil, "foo"}
SlintTasks == {SlintTask(n, i) : n \in UiTaskNames, i \in SlintIds}

-----------------------------------------------------------------------------
(* helixflow-slint: the HelixFlow window and its create_task callbacks.    *)

\* HelixFlow::new(): the properties at their declared values, no callback set.
\* `request` is the task creation request spawned and not yet completed.
HelixFlow_new ==
    [callback |-> "-", backend |-> "-", create_enabled |-> TRUE, task_id |-> "",
     task_name |-> "", current_task |-> SlintTask("", ""),
     backlog |-> SlintTaskList("", ""), request |-> None]

\* helixflow.on_create_task(callback) with the backend the callback holds.
On_create_task(helixflow, callback, backend) ==
    [helixflow EXCEPT !.callback = callback, !.backend = backend]

Unwrapped == Panic("called Result::unwrap() on an Err value")

\* The button left disabled after the id was written.
HelixFlow_create_task_keeping_disabled(helixflow, task, created) ==
    LET disabled == [helixflow EXCEPT !.create_enabled = FALSE]
    IN  IF IsOk(created)
        THEN [ui |-> [disabled EXCEPT !.task_id = Uuid_to_string(task.id)], ret |-> Ok(Unit)]
        ELSE [ui |-> disabled, ret |-> IF IsPanic(created) THEN created ELSE Unwrapped]

\* blocking::create_task of helixflow-slint/src/lib.rs: the closure run on a
\* click; `task` is the Task::new it made, `created` what task.create returned.
HelixFlow_create_task(helixflow, task, created) ==
    LET disabled == [helixflow EXCEPT !.create_enabled = FALSE]
    IN  IF IsOk(created)
        THEN [ui  |-> [disabled EXCEPT !.task_id = Uuid_to_string(task.id),
                                       !.create_enabled = TRUE],
              ret |-> Ok(Unit)]
        ELSE [ui |-> disabled, ret |-> IF IsPanic(created) THEN created ELSE Unwrapped]

\* blocking::create_task of helixflow-slint/src/task.rs: as above, the task
\* handed to the CurrentTask global.
CurrentTask_create_task(helixflow, task, created) ==
    LET disabled == [helixflow EXCEPT !.create_enabled = FALSE]
    IN  IF IsOk(created)
        THEN [ui  |-> [disabled EXCEPT !.current_task = SlintTask_from(task),
                                       !.create_enabled = TRUE],
              ret |-> Ok(Unit)]
        ELSE [ui |-> disabled, ret |-> IF IsPanic(created) THEN created ELSE Unwrapped]

\* The asynchronous flow (tests/ui_integration.rs).  Task<ID> has an optional id
\* that StorageBackend::create fills in.
LegacyTask(name, id) == [name |-> name, id |-> id]

\* impl StorageBackend<Thing> for SurrealDb: create; the driver call is unwrapped.
Legacy_SurrealDb_create(task, answer) ==
    IF IsErr(answer) THEN Unwrapped
    ELSE IF answer.val = None THEN Err(Anyhow("Creating new record"))
         ELSE Ok([task EXCEPT !.id = answer.val[1].id])

\* format!("{task_id}"): a u32 in decimal, a Thing as table:id.
Legacy_id_display(backend, id) ==
    IF backend = "TestBackend" THEN ToString(id) ELSE id.tb \o ":" \o Id_to_string(id.id)

\* impl StorageBackend<u32> for TestBackend: create
Legacy_TestBackend_create(task) ==
    IF task.name = Borrowed("FAIL") THEN Err(Anyhow("Taskname: FAIL"))
    ELSE Ok([task EXCEPT !.id = Some(1)])

\* The click handler that leaves the button enabled.
Async_on_click_leaving_enabled(helixflow) ==
    [helixflow EXCEPT !.request = Some(LegacyTask(Owned(helixflow.task_name), None))]

\* The on_create_task closure: disables the button and spawns the request.
Async_on_click(helixflow) ==
    [helixflow EXCEPT !.create_enabled = FALSE,
                      !.request = Some(LegacyTask(Owned(helixflow.task_name), None))]

\* The spawned future, run to its end; `created` is what task.create gave.
Async_request(helixflow, created) ==
    LET taken == [helixflow EXCEPT !.request = None]
    IN  IF IsOk(created)
        THEN [ui  |-> [taken EXCEPT !.task_id =
                                        Legacy_id_display(helixflow.backend, created.val.id[1]),
                                    !.create_enabled = TRUE],
              ret |-> Ok(Unit)]
        ELSE [ui |-> taken, ret |-> Unwrapped]

-----------------------------------------------------------------------------
(* helixflow: the State of the user interface and the start of the         *)
(* application.                                                            *)

STATE_ID == "867bb83c-730a-4470-9fcd-14359cf5292b"

State(visible_backlog, id) == [visible_backlog |-> visible_backlog, id |-> id]
State_new(id) == State(None, id)
State_visible_backlog(state, backlog) == [state EXCEPT !.visible_backlog = Some(backlog.id)]
State_visible_backlog_id(state) == state.visible_backlog

\* Store<State> for SurrealDb on the table st: create persists the State under
\* its id and returns it as stored; get returns it, or NotFound tagged with the
\* entity-type name and the id.  `up` tells whether the connection holds.
SurrealState(state) ==
    [id |-> Thing("State", IdUuid(state.id)), visible_backlog |-> state.visible_backlog]

SurrealDb_create_state(state, st, up) ==
    IF ~up THEN [states |-> st, ret |-> Err(BackendError("connection lost"))]
    ELSE IF \E r \in st : r.id = SurrealState(state).id
         THEN [states |-> st, ret |-> Err(BackendError("Database record already exists"))]
         ELSE [states |-> st \cup {SurrealState(state)}, ret |-> Ok(state)]

SurrealDb_get_state(id, st, up) ==
    IF ~up THEN Err(BackendError("connection lost"))
    ELSE IF \E r \in st : r.id = Thing("State", IdUuid(id))
         THEN Ok(State((CHOOSE r \in st : r.id = Thing("State", IdUuid(id))).visible_backlog, id))
         ELSE Err(NotFound("State", id))

\* Where the connection to the store may be lost during a start.
StartFaults == {"none", "State::get", "State::create"}

\* load_backlog, invoked once the backlog is set.
Load_backlog(tasklist) ==
    LET got == Linkable_get_linked_items(SurrealDb_get_linked_items(tasklist))
    IN  IF IsOk(got) THEN Ok(Unit) ELSE IF IsPanic(got) THEN got ELSE Unwrapped

\* The backlog handed to the window and loaded.
Run_helixflow_show(tl, st, lookup, backlog) ==
    [tasklists |-> tl, states |-> st, lookup |-> lookup,
     ui  |-> [HelixFlow_new EXCEPT !.backlog = SlintTaskList_from(backlog)],
     ret |-> Load_backlog(backlog)]

Run_helixflow_panic(tl, st, lookup) ==
    [tasklists |-> tl, states |-> st, lookup |-> lookup, ui |-> HelixFlow_new,
     ret |-> Unwrapped]

\* A start that makes a new backlog whether or not a State is stored.
Run_helixflow_always_creating(tl, st, fresh, fault) ==
    LET lookup == CRUD_get(SurrealDb_get_state(STATE_ID, st, fault # "State::get"))
        ui_state == IF IsOk(lookup) THEN lookup.val ELSE State_new(STATE_ID)
        backlog == TaskList_new(Borrowed("This week"), fresh)
        eng == Engine_create(tl, SurrealTaskList_from(backlog))
        created == CRUD_create(SurrealDb_create_tasklist(backlog, eng.answer)).ret
    IN  IF ~IsOk(created) THEN Run_helixflow_panic(eng.table, st, lookup)
        ELSE Run_helixflow_show(eng.table, st, lookup, backlog)

\* run_helixflow up to the first display, on the tables tl (Tasklists) and st
\* (State); `fresh` is the id TaskList::new would take.
Run_helixflow(tl, st, fresh, fault) ==
    LET lookup == CRUD_get(SurrealDb_get_state(STATE_ID, st, fault # "State::get"))
        missing == /\ IsErr(lookup) /\ lookup.val.kind = "NotFound"
                   /\ lookup.val.itemtype = "State" /\ lookup.val.id = STATE_ID
    IN  IF ~IsOk(lookup) /\ ~missing THEN Run_helixflow_panic(tl, st, lookup)
        ELSE
        LET ui_state == IF IsOk(lookup) THEN lookup.val ELSE State_new(STATE_ID)
            id == State_visible_backlog_id(ui_state)
        IN  IF id # None
            THEN LET got == CRUD_get(SurrealDb_get_tasklist(id[1],
                                         Engine_select(tl, TaskListThing(id[1]))))
                 IN  IF ~IsOk(got) THEN Run_helixflow_panic(tl, st, lookup)
                     ELSE Run_helixflow_show(tl, st, lookup, got.val)
            ELSE LET backlog == TaskList_new(Borrowed("This week"), fresh)
                     eng == Engine_create(tl, SurrealTaskList_from(backlog))
                     created == CRUD_create(SurrealDb_create_tasklist(backlog, eng.answer)).ret
                     kept == State_visible_backlog(ui_state, backlog)
                     stored == SurrealDb_create_state(kept, st, fault # "State::create")
                     saved == CRUD_create([item |-> kept, ret |-> stored.ret]).ret
                 IN  IF ~IsOk(created) THEN Run_helixflow_panic(eng.table, st, lookup)
                     ELSE IF ~IsOk(saved)
                          THEN Run_helixflow_panic(eng.table, stored.states, lookup)
                          ELSE Run_helixflow_show(eng.table, stored.states, lookup, backlog)

-----------------------------------------------------------------------------
(* Calls.  `op` is the last completed call:                                *)
(*   name    the operation the caller invoked                              *)
(*   backend the backend it was given                                      *)
(*   arg     its argument (the entity, the id or the relationship)         *)
(*   answer  what the database driver answered (SurrealDb create only)     *)
(*   inner   what the backend's Store / Relate method returned             *)
(*   ret     what the caller got                                           *)
(*   calls   the backend methods invoked, in order                         *)
(*   after   the caller's entity after the call                            *)

NoCall == [tag |-> "NoCall", val |-> "-"]

Call(name, backend, arg, answer, inner, ret, calls, after) ==
    [name |-> name, backend |-> backend, arg |-> arg, answer |-> answer,
     inner |-> inner, ret |-> ret, calls |-> calls, after |-> after]

Init ==
    /\ tasks = {}
    /\ tasklists = {}
    /\ contains = {}
    /\ op = Call("new", "-", "-", NoCall, NoCall, NoCall, << >>, "-")
    /\ acked = {}
    /\ ackedLists = {}
    /\ linked = {}
    /\ states = {}
    /\ ui = HelixFlow_new

\* The entities handed to the SurrealDb backend (it reads no name): one Task per
\* identifier, and one more that carries a description.
StoreTasks ==
    {Task(Borrowed("A"), i, None) : i \in TaskIds} \cup
    {Task(Borrowed("A"), OTHER_ID, Some("d"))}

Room(table, thing, max) == Cardinality(table) < max \/ \E r \in table : r.id = thing

-----------------------------------------------------------------------------
(* SurrealDb on its engine.                                                *)

\* task.create(&backend) with backend: SurrealDb
CreateTask(task) ==
    /\ Room(tasks, TaskThing(task.id), MaxTasks)
    /\ LET eng == Engine_create(tasks, SurrealTask_from(task))
           created == SurrealDb_create(task, eng.answer)
           out == CRUD_create(created)
       IN  /\ tasks' = eng.table
           /\ op' = Call("CRUD::create", "SurrealDb", task, eng.answer, created.ret,
                         out.ret, <<"Store::create">>, out.self)
           /\ acked' = IF IsOk(out.ret) THEN acked \cup {task} ELSE acked
    /\ UNCHANGED <<tasklists, contains, ackedLists, linked, states, ui>>

\* Task::get(&backend, &id) with backend: SurrealDb
GetTask(id) ==
    /\ LET got == SurrealDb_get(id, Engine_select(tasks, TaskThing(id)))
       IN  op' = Call("CRUD::get", "SurrealDb", id, NoCall, got, CRUD_get(got),
                      <<"Store::get">>, "-")
    /\ UNCHANGED <<tasks, tasklists, contains, acked, ackedLists, linked, states, ui>>

\* tasklist.create(&backend) with backend: SurrealDb
CreateTaskList(tasklist) ==
    /\ Room(tasklists, TaskListThing(tasklist.id), MaxTaskLists)
    /\ LET eng == Engine_create(tasklists, SurrealTaskList_from(tasklist))
           created == SurrealDb_create_tasklist(tasklist, eng.answer)
           out == CRUD_create(created)
       IN  /\ tasklists' = eng.table
           /\ op' = Call("CRUD::create", "SurrealDb", tasklist, eng.answer, created.ret,
                         out.ret, <<"Store::create">>, out.self)
           /\ ackedLists' = IF IsOk(out.ret) THEN ackedLists \cup {tasklist} ELSE ackedLists
    /\ UNCHANGED <<tasks, contains, acked, linked, states, ui>>

\* TaskList::get(&backend, &id) with backend: SurrealDb
GetTaskList(id) ==
    /\ LET got == SurrealDb_get_tasklist(id, Engine_select(tasklists, TaskListThing(id)))
       IN  op' = Call("CRUD::get TaskList", "SurrealDb", id, NoCall, got, CRUD_get(got),
                      <<"Store::get">>, "-")
    /\ UNCHANGED <<tasks, tasklists, contains, acked, ackedLists, linked, states, ui>>

\* relationship.create_linked_item(&backend) with backend: SurrealDb; `up` as in
\* SurrealDb_create_linked_item
CreateLinkedItem(lnk, up) ==
    /\ IsOk(lnk.right) => Room(tasks, TaskThing(lnk.right.val.id), MaxTasks)
    /\ LET be == SurrealDb_create_linked_item(lnk, tasks, tasklists, contains, up)
           out == Link_create_linked_item(lnk, be.ret)
           reached == out.calls # << >>
       IN  /\ tasks' = IF reached THEN be.tasks ELSE tasks
           /\ contains' = IF reached THEN be.contains ELSE contains
           /\ op' = Call("Link::create_linked_item", "SurrealDb", lnk, NoCall,
                         IF reached THEN be.ret ELSE NoCall, out.ret, out.calls, lnk)
           /\ linked' = IF IsOk(out.ret)
                        THEN linked \cup {<<lnk.left.val, lnk.right.val>>} ELSE linked
    /\ UNCHANGED <<tasklists, acked, ackedLists, states, ui>>

\* tasklist.get_linked_items(&backend) with backend: SurrealDb
GetLinkedItems(tasklist) ==
    /\ LET got == SurrealDb_get_linked_items(tasklist)
       IN  op' = Call("Linkable::get_linked_items", "SurrealDb", tasklist, NoCall, got,
                      Linkable_get_linked_items(got), <<"Relate::get_linked_items">>, tasklist)
    /\ UNCHANGED <<tasks, tasklists, contains, acked, ackedLists, linked, states, ui>>

\* Task::get(&backend, &id) with backend: TestBackend
TestGetTask(id) ==
    /\ LET got == TestBackend_get(id)
       IN  op' = Call("CRUD::get", "TestBackend", id, NoCall, got, CRUD_get(got),
                      <<"Store::get">>, "-")
    /\ UNCHANGED <<tasks, tasklists, contains, acked, ackedLists, linked, states, ui>>

StoreLinks ==
    {Contains(l, s, r) : l \in LeftSlots, s \in Sortorders,
                         r \in {Ok(t) : t \in StoreTasks} \cup {Err(e) : e \in RightErrors}}

Next ==
    \/ \E task \in StoreTasks : CreateTask(task)
    \/ \E id \in TaskIds : GetTask(id)
    \/ \E tasklist \in TaskListValues : CreateTaskList(tasklist)
    \/ \E id \in TaskListIds : GetTaskList(id)
    \/ \E lnk \in StoreLinks : CreateLinkedItem(lnk, TRUE)
    \/ \E tasklist \in TaskListValues : GetLinkedItems(tasklist)
    \/ \E id \in TaskIds : TestGetTask(id)

Spec == Init /\ [][Next]_vars

\* The same client on a connection that can drop between the driver calls of one
\* create_linked_item.
NextFaults ==
    \/ Next
    \/ \E lnk \in StoreLinks : CreateLinkedItem(lnk, FALSE)

SpecFaults == Init /\ [][NextFaults]_vars

-----------------------------------------------------------------------------
(* Single calls on every outcome: the TestBackend's hard-coded cases, the  *)
(* SurrealDb backend on each answer its driver call can give, and `?` on a *)
(* relationship.  None of them touches the tables.                         *)

\* What a driver call for a Task record can answer.
AnswerTexts == {"A", "Z"}
ForeignIds == {IdString("8fq3k2m1"), IdNumber(7)}
AnswerIds == {IdUuid(u) : u \in TaskIds} \cup ForeignIds
TaskAnswers ==
    {Err("connection lost"), Ok(None)} \cup
    {Ok(Some(SurrealTask(Owned(n), Thing("Tasks", i), d))) :
        n \in AnswerTexts, i \in AnswerIds, d \in Descriptions}

\* What a driver call for a TaskList record can answer.
TaskListAnswers ==
    {Err("connection lost"), Ok(None)} \cup
    {Ok(Some(SurrealTaskList(Owned(n), Thing("Tasklists", i)))) :
        n \in {"Backlog", "Other"},
        i \in {IdUuid(u) : u \in TaskListIds} \cup ForeignIds}

Quiet == UNCHANGED <<tasks, tasklists, contains, acked, ackedLists, linked, states, ui>>

\* task.create(&backend) with backend: TestBackend
TestCreateTask(task, fresh) ==
    /\ LET created == TestBackend_create(task, fresh)
           out == CRUD_create(created)
       IN  op' = Call("CRUD::create", "TestBackend", task, NoCall, created.ret,
                      out.ret, <<"Store::create">>, out.self)
    /\ Quiet

\* task.create(&backend) with backend: SurrealDb, the driver answering `answer`
AnswerCreateTask(task, answer) ==
    /\ LET created == SurrealDb_create(task, answer)
           out == CRUD_create(created)
       IN  op' = Call("CRUD::create", "SurrealDb", task, answer, created.ret,
                      out.ret, <<"Store::create">>, out.self)
    /\ Quiet

\* tasklist.create(&backend) with backend: TestBackend
TestCreateTaskList(tasklist) ==
    /\ LET created == TestBackend_create_tasklist(tasklist)
           out == CRUD_create(created)
       IN  op' = Call("CRUD::create", "TestBackend", tasklist, NoCall, created.ret,
                      out.ret, <<"Store::create">>, out.self)
    /\ Quiet

\* tasklist.create(&backend) with backend: SurrealDb, the driver answering `answer`
AnswerCreateTaskList(tasklist, answer) ==
    /\ LET created == SurrealDb_create_tasklist(tasklist, answer)
           out == CRUD_create(created)
       IN  op' = Call("CRUD::create", "SurrealDb", tasklist, answer, created.ret,
                      out.ret, <<"Store::create">>, out.self)
    /\ Quiet

\* relationship.create_linked_item(&backend) with backend: TestBackend
TestCreateLinkedItem(lnk, fresh) ==
    /\ LET be == TestBackend_create_linked_item(lnk, fresh)
           out == Link_create_linked_item(lnk, be)
       IN  op' = Call("Link::create_linked_item", "TestBackend", lnk, NoCall,
                      IF out.calls # << >> THEN be ELSE NoCall, out.ret, out.calls, lnk)
    /\ Quiet

\* Task::get(&backend, &id) with backend: SurrealDb, the driver answering `answer`
AnswerGetTask(id, answer) ==
    /\ LET got == SurrealDb_get(id, answer)
       IN  op' = Call("CRUD::get", "SurrealDb", id, answer, got, CRUD_get(got),
                      <<"Store::get">>, "-")
    /\ Quiet

\* TaskList::get(&backend, &id) with backend: SurrealDb, the driver answering `answer`
AnswerGetTaskList(id, answer) ==
    /\ LET got == SurrealDb_get_tasklist(id, answer)
       IN  op' = Call("CRUD::get TaskList", "SurrealDb", id, answer, got, CRUD_get(got),
                      <<"Store::get">>, "-")
    /\ Quiet

\* TaskList::get(&backend, &id) with backend: TestBackend
TestGetTaskList(id) ==
    /\ LET got == TestBackend_get_tasklist(id)
       IN  op' = Call("CRUD::get TaskList", "TestBackend", id, NoCall, got, CRUD_get(got),
                      <<"Store::get">>, "-")
    /\ Quiet

\* tasklist.get_linked_items(&backend) with backend: TestBackend
TestGetLinkedItems(tasklist) ==
    /\ LET got == TestBackend_get_linked_items(tasklist)
       IN  op' = Call("Linkable::get_linked_items", "TestBackend", tasklist, NoCall, got,
                      Linkable_get_linked_items(got), <<"Relate::get_linked_items">>,
                      tasklist)
    /\ Quiet

\* What an implementor of Relate can return from create_linked_item.
RelateAnswers ==
    {Err(NotFound("Tasklist", OTHER_ID)), Err(BackendError("connection lost"))} \cup
    {Ok(Contains(l, "a", r)) :
        l \in LeftSlots,
        r \in {Ok(t) : t \in StoreTasks} \cup {Err(e) : e \in RightErrors}}

\* relationship.create_linked_item(&backend) with backend: any B: Relate, whose
\* create_linked_item returns `created`
AnswerCreateLinkedItem(lnk, created) ==
    /\ LET out == Link_create_linked_item(lnk, created)
       IN  op' = Call("Link::create_linked_item", "Relate", lnk, NoCall,
                      IF out.calls # << >> THEN created ELSE NoCall, out.ret, out.calls, lnk)
    /\ Quiet

\* task.create(&backend).await with backend: non_blocking::TestBackend
NonBlockingTestCreateTask(task, fresh) ==
    /\ LET created == NonBlocking_TestBackend_create(task, fresh)
           out == NonBlocking_CRUD_create(created)
       IN  op' = Call("non_blocking::CRUD::create", "TestBackend", task, NoCall,
                      created.ret, out.ret, <<"StorageBackend::create">>, out.self)
    /\ Quiet

\* task.create(&backend).await with backend: non_blocking::SurrealDb, the driver
\* answering `answer`
NonBlockingAnswerCreateTask(task, answer) ==
    /\ LET created == NonBlocking_SurrealDb_create(task, answer)
           out == NonBlocking_CRUD_create(created)
       IN  op' = Call("non_blocking::CRUD::create", "SurrealDb", task, answer,
                      created.ret, out.ret, <<"StorageBackend::create">>, out.self)
    /\ Quiet

\* `relationship?` in a function returning HelixFlowResult<()>
TryContains(lnk) ==
    /\ op' = Call("Try", "-", lnk, NoCall, NoCall, Try_Contains(lnk), << >>, lnk)
    /\ Quiet

\* Task::try_from(slint_task)
ConvertSlintTask(slint_task, fresh) ==
    /\ op' = Call("TryFrom<SlintTask>", "-", slint_task, Ok(fresh), NoCall,
                  Task_try_from_slint(slint_task, fresh), << >>, "-")
    /\ Quiet

NextCalls ==
    \/ \E slint_task \in SlintTasks : \E fresh \in NowV7({}) :
           ConvertSlintTask(slint_task, fresh)
    \/ \E task \in TaskValues : \E fresh \in NowV7({task.id}) : TestCreateTask(task, fresh)
    \/ \E task \in StoreTasks : \E answer \in TaskAnswers : AnswerCreateTask(task, answer)
    \/ \E tasklist \in TaskListValues : TestCreateTaskList(tasklist)
    \/ \E tasklist \in TaskListValues : \E answer \in TaskListAnswers :
           AnswerCreateTaskList(tasklist, answer)
    \/ \E lnk \in ContainsValues :
           \E fresh \in NowV7(IF IsOk(lnk.right) THEN {lnk.right.val.id} ELSE {}) :
               TestCreateLinkedItem(lnk, fresh)
    \/ \E lnk \in ContainsValues : TryContains(lnk)
    \/ \E id \in TaskIds : TestGetTask(id)
    \/ \E id \in TaskListIds : TestGetTaskList(id)
    \/ \E id \in TaskIds : \E answer \in TaskAnswers : AnswerGetTask(id, answer)
    \/ \E id \in TaskListIds : \E answer \in TaskListAnswers : AnswerGetTaskList(id, answer)
    \/ \E tasklist \in TaskListValues : TestGetLinkedItems(tasklist)
    \/ \E lnk \in StoreLinks : \E created \in RelateAnswers :
           AnswerCreateLinkedItem(lnk, created)
    \/ \E task \in TaskValues : \E fresh \in NowV7({task.id}) :
           NonBlockingTestCreateTask(task, fresh)
    \/ \E task \in StoreTasks : \E answer \in TaskAnswers :
           NonBlockingAnswerCreateTask(task, answer)

SpecCalls == Init /\ [][NextCalls]_vars

-----------------------------------------------------------------------------
(* The application: a HelixFlow window with a create_task callback on a    *)
(* backend, the user typing and clicking, and run_helixflow on the store.  *)

\* The callbacks the program registers and the backends they are given.
Windows ==
    {<<cb, be>> : cb \in {"HelixFlow", "CurrentTask", "async"}, be \in {"TestBackend", "SurrealDb"}}

\* What the driver answers to the create of the asynchronous SurrealDb backend.
LegacyAnswers ==
    {Err("connection lost"), Ok(None),
     Ok(Some(LegacyTask(Owned("Hardcoded"), Some(Thing("Tasks", IdString("8fq3k2m1"))))))}

\* The identifiers the store holds.
UsedIds == {r.id.id.v : r \in tasks \cup tasklists}

\* HelixFlow::new() and helixflow.on_create_task(..)
NewWindow(callback, backend) ==
    /\ ui' = On_create_task(HelixFlow_new, callback, backend)
    /\ op' = Call("HelixFlow::new", backend, callback, NoCall, NoCall, Ok(Unit), << >>, "-")
    /\ UNCHANGED <<tasks, tasklists, contains, acked, ackedLists, linked, states>>

\* The user types a task name.
SetTaskName(name) ==
    /\ ui.callback # "-" /\ ui.task_name # name
    /\ ui' = [ui EXCEPT !.task_name = name]
    /\ UNCHANGED <<tasks, tasklists, contains, op, acked, ackedLists, linked, states>>

\* A click on Create with a blocking callback set: the button is enabled, the
\* callback runs to its end.  `up` tells whether the connection to SurrealDb holds.
ClickCreateTask(fresh, up) ==
    /\ ui.callback \in {"HelixFlow", "CurrentTask"} /\ ui.create_enabled
    /\ ui.backend = "SurrealDb" => Room(tasks, TaskThing(fresh), MaxTasks)
    /\ ui.backend = "TestBackend" => up
    /\ LET task == Task_new(Owned(ui.task_name), None, fresh)
           eng == IF ui.backend = "TestBackend" THEN [table |-> tasks, answer |-> NoCall]
                  ELSE IF up THEN Engine_create(tasks, SurrealTask_from(task))
                       ELSE [table |-> tasks, answer |-> Err("connection lost")]
           created == IF ui.backend = "TestBackend" THEN TestBackend_create(task, fresh)
                      ELSE SurrealDb_create(task, eng.answer)
           out == CRUD_create(created)
           done == IF ui.callback = "HelixFlow"
                   THEN HelixFlow_create_task(ui, task, out.ret)
                   ELSE CurrentTask_create_task(ui, task, out.ret)
       IN  /\ tasks' = eng.table
           /\ ui' = done.ui
           /\ op' = Call("create_task", ui.backend, task, eng.answer, out.ret, done.ret,
                         <<"Store::create">>, out.self)
           /\ acked' = IF ui.backend = "SurrealDb" /\ IsOk(out.ret)
                       THEN acked \cup {task} ELSE acked
    /\ UNCHANGED <<tasklists, contains, ackedLists, linked, states>>

\* A click on Create with the asynchronous callback set.
ClickCreateAsync ==
    /\ ui.callback = "async" /\ ui.create_enabled
    /\ ui' = Async_on_click(ui)
    /\ op' = Call("on_create_task", ui.backend, ui.task_name, NoCall, NoCall, Ok(Unit),
                  << >>, "-")
    /\ UNCHANGED <<tasks, tasklists, contains, acked, ackedLists, linked, states>>

\* The event loop runs the spawned request to its end.
CompleteRequest(answer) ==
    /\ ui.request # None
    /\ ui.backend = "TestBackend" => answer = Ok(None)
    /\ LET task == ui.request[1]
           created == IF ui.backend = "TestBackend" THEN Legacy_TestBackend_create(task)
                      ELSE Legacy_SurrealDb_create(task, answer)
           done == Async_request(ui, created)
       IN  /\ ui' = done.ui
           /\ op' = Call("task_creation_request", ui.backend, task,
                         IF ui.backend = "TestBackend" THEN NoCall ELSE answer,
                         created, done.ret, <<"StorageBackend::create">>,
                         IF IsOk(created) THEN created.val ELSE task)
    /\ UNCHANGED <<tasks, tasklists, contains, acked, ackedLists, linked, states>>

\* run_helixflow() on the store, in a new process.
RunHelixflow(fresh, fault) ==
    /\ Cardinality(tasklists) < MaxBacklogs
    /\ LET run == Run_helixflow(tasklists, states, fresh, fault)
       IN  /\ tasklists' = run.tasklists
           /\ states' = run.states
           /\ ui' = run.ui
           /\ op' = Call("run_helixflow", "SurrealDb", fault, NoCall, run.lookup, run.ret,
                         << >>, "-")
           /\ ackedLists' = IF run.tasklists # tasklists
                            THEN ackedLists \cup {TaskList_new(Borrowed("This week"), fresh)}
                            ELSE ackedLists
    /\ UNCHANGED <<tasks, contains, acked, linked>>

NextApp ==
    \/ \E w \in Windows : NewWindow(w[1], w[2])
    \/ \E name \in UiTaskNames : SetTaskName(name)
    \/ \E fresh \in NowV7(UsedIds) : \E up \in BOOLEAN : ClickCreateTask(fresh, up)
    \/ ClickCreateAsync
    \/ \E answer \in LegacyAnswers : CompleteRequest(answer)
    \/ \E fresh \in NowV7(UsedIds) : \E fault \in StartFaults : RunHelixflow(fresh, fault)

SpecApp == Init /\ [][NextApp]_vars

-----------------------------------------------------------------------------
(* Properties.                                                             *)

IsCreate == op.name = "CRUD::create"
IsTaskGet == op.name = "CRUD::get"
IsLinkCreate == op.name = "Link::create_linked_item"
Continuable(c) == IsOk(c.left) /\ IsOk(c.right)

\* Every field of the two entities agrees (a name by its text).
SameFields(a, b) ==
    /\ a.name.s = b.name.s
    /\ a.id = b.id
    /\ ("description" \in DOMAIN a) = ("description" \in DOMAIN b)
    /\ "description" \in DOMAIN a => a.description = b.description

\* C1: CRUD::create returns Ok(()) if and only if Store::create returned Ok(created)
\* with created equal to the entity in every field; when Store::create returned
\* anything else, CRUD::create returns an error.
C1_CreateOkIffConfirmed ==
    IsCreate =>
        /\ IsOk(op.ret) <=> (IsOk(op.inner) /\ SameFields(op.inner.val, op.arg))
        /\ (IsOk(op.inner) \/ IsErr(op.inner)) /\ ~IsOk(op.ret) => IsErr(op.ret)

C1_Witness ==
    /\ IsCreate /\ op.backend = "SurrealDb" /\ "description" \in DOMAIN op.arg
    /\ IsOk(op.inner) /\ SameFields(op.inner.val, op.arg) /\ op.ret = Ok(Unit)
    /\ op.inner.val.name # op.arg.name

\* C2: when Store::create returns Ok(created) with created different from the
\* entity, CRUD::create fails with Mismatch whose expected is the entity and whose
\* actual is the value the backend returned.
C2_MismatchCarriesBoth ==
    IsCreate /\ IsOk(op.inner) /\ ~SameFields(op.inner.val, op.arg) =>
        op.ret = Err(Mismatch(op.arg, op.inner.val))

C2_Witness ==
    /\ IsCreate /\ IsOk(op.inner) /\ "description" \in DOMAIN op.arg
    /\ op.inner.val.name.s # op.arg.name.s
    /\ op.inner.val.id = op.arg.id
    /\ op.ret = Err(Mismatch(op.arg, op.inner.val))

\* C3 as stated: when Store::create fails, CRUD::create fails with the backend's
\* error verbatim and that error is of kind BackendError.
C3_AlwaysBackendError ==
    IsCreate /\ IsErr(op.inner) =>
        op.ret = op.inner /\ op.ret.val.kind = "BackendError"

\* The record the driver answered carries an identifier that is no Uuid.
AnsweredForeignId ==
    /\ IsOk(op.answer) /\ op.answer.val # None
    /\ op.answer.val[1].id.id.kind # "Uuid"

\* C3 amended: when Store::create fails, CRUD::create fails with exactly the error
\* Store::create returned; it is InvalidID (naming the identifier) when the stored
\* record's identifier is not a UUID, and BackendError for every other failure.
C3_ErrorVerbatim ==
    IsCreate /\ IsErr(op.inner) =>
        /\ op.ret = op.inner
        /\ IF AnsweredForeignId
           THEN op.ret.val = InvalidID(Id_to_string(op.answer.val[1].id.id))
           ELSE op.ret.val.kind = "BackendError"

C3_Witness ==
    /\ IsCreate /\ IsErr(op.inner) /\ AnsweredForeignId
    /\ op.ret = Err(InvalidID("8fq3k2m1"))

\* A Task record with this id exists in the backend the call went to.
TaskExists(backend, id) ==
    IF backend = "SurrealDb"
    THEN \E r \in tasks : r.id = Thing("Tasks", IdUuid(id))
    ELSE id \in {TASK1_ID, TASK2_ID}

GetNow(id) ==
    CRUD_get(SurrealDb_get(id, Engine_select(tasks, Thing("Tasks", IdUuid(id)))))

C6_BrokenNeverReachesBackend ==
    [][ op'.name = "Link::create_linked_item" =>
          /\ ~Continuable(op'.arg) =>
                 /\ IsErr(op'.ret)
                 /\ op'.calls = << >>
                 /\ op'.inner = NoCall
                 /\ <<tasks, tasklists, contains>>' = <<tasks, tasklists, contains>>
          /\ op'.calls # << >> => Continuable(op'.arg) ]_vars

C6_Witness ==
    /\ IsLinkCreate /\ op.backend = "SurrealDb"
    /\ IsErr(op.arg.left) /\ IsOk(op.arg.right)
    /\ tasklists # {} /\ tasks # {} /\ contains # {}
    /\ IsErr(op.ret) /\ op.calls = << >>

\* The relationship was broken when `?` was applied to it.
IsTryBroken == op.name = "Try" /\ ~Continuable(op.arg)

\* C7: converting a broken relationship into a plain result yields
\* Err(RelationshipBetweenErrors{left, right}) carrying both slots as they were.
C7_ResidualCarriesBothSides ==
    IsTryBroken =>
        /\ IsErr(op.ret)
        /\ op.ret.val = RelationshipBetweenErrors(op.arg.left, op.arg.right)

\* C8: for a continuable relationship Link::create_linked_item returns Ok(()) exactly
\* when the relationship the backend returned has a Right that is Ok and equal to
\* the intended Right; when that Right is Ok but different it fails with Mismatch
\* of the intended Right (expected) and the returned Right (actual).
C8_LinkedRightVerified ==
    IsLinkCreate /\ Continuable(op.arg) =>
        LET confirmed == /\ IsOk(op.inner)
                         /\ IsOk(op.inner.val.right)
                         /\ SameFields(op.inner.val.right.val, op.arg.right.val)
        IN  /\ IsOk(op.ret) <=> confirmed
            /\ IsOk(op.inner) /\ IsOk(op.inner.val.right) /\ ~confirmed =>
                   op.ret = Err(Mismatch(op.arg.right.val, op.inner.val.right.val))

C8_Witness ==
    /\ IsLinkCreate /\ Continuable(op.arg)
    /\ IsOk(op.inner) /\ IsOk(op.inner.val.right)
    /\ op.inner.val.right.val.id # op.arg.right.val.id
    /\ op.ret = Err(Mismatch(op.arg.right.val, op.inner.val.right.val))

\* The Tasks whose linked creation into `tasklist` was acknowledged.
LinkedTo(tasklist) == {p[2] : p \in {q \in linked : q[1] = tasklist}}

\* C9: after a TaskList has been created and one or two Tasks have been linked to
\* it by successful create_linked_item calls, get_linked_items of that TaskList
\* yields exactly those Tasks as Right sides, each exactly once.
C9_LinkedItemsRoundTrip ==
    /\ op.name = "Linkable::get_linked_items"
    /\ op.arg \in ackedLists
    /\ Cardinality(LinkedTo(op.arg)) \in {1, 2}
    => /\ IsOk(op.ret)
       /\ Len(op.ret.val) = Cardinality(LinkedTo(op.arg))
       /\ \A t \in LinkedTo(op.arg) :
              \E i \in 1..Len(op.ret.val) :
                  IsOk(op.ret.val[i].right) /\ SameFields(op.ret.val[i].right.val, t)

C11_LinkedCreationAtomic ==
    [][ op'.name = "Link::create_linked_item" /\ op'.backend = "SurrealDb" =>
            ((tasks' # tasks) <=> (contains' # contains)) ]_vars

\* The table holds a record under this record id.
Holds(table, thing) == \E r \in table : r.id = thing

\* C12: every persisted link references a TaskList record and a Task record that
\* are in the store; a create_linked_item for a TaskList the store does not hold
\* returns NotFound and leaves no link that names that TaskList.
C12_LinksReferenceExisting ==
    /\ \A l \in contains : Holds(tasklists, l.in) /\ Holds(tasks, l.out)
    /\ /\ IsLinkCreate /\ op.backend = "SurrealDb" /\ Continuable(op.arg)
       /\ ~Holds(tasklists, TaskListThing(op.arg.left.val.id))
       => /\ op.ret = Err(NotFound("TaskList", op.arg.left.val.id))
          /\ \A l \in contains : l.in # TaskListThing(op.arg.left.val.id)

C12_Witness ==
    /\ contains # {}
    /\ IsLinkCreate /\ op.backend = "SurrealDb" /\ Continuable(op.arg)
    /\ ~Holds(tasklists, TaskListThing(op.arg.left.val.id))
    /\ ~Holds(tasks, TaskThing(op.arg.right.val.id))
    /\ op.ret = Err(NotFound("TaskList", op.arg.left.val.id))

IsGet == op.name \in {"CRUD::get", "CRUD::get TaskList"}

\* C13: CRUD::get is a pass-through: its result is the result of Store::get (the
\* same Ok value or the same error), it makes exactly one backend call, Store::get,
\* and the stored tables are as before.
C13_GetIsPassThrough ==
    [][ op'.name \in {"CRUD::get", "CRUD::get TaskList"} =>
            /\ op'.ret = op'.inner
            /\ op'.calls = <<"Store::get">>
            /\ db' = db ]_vars

C13_Witness ==
    /\ IsTaskGet /\ op.backend = "SurrealDb"
    /\ IsOk(op.inner) /\ op.inner.val.id # op.arg
    /\ op.ret = op.inner

\* The backend the call went to holds a TaskList under this id.
TaskListExists(backend, id) ==
    IF backend = "SurrealDb" THEN Holds(tasklists, TaskListThing(id)) ELSE id = TASKLIST1_ID

IsGetLinked == op.name = "Linkable::get_linked_items"

\* C14 as stated: get_linked_items(left) fails with NotFound carrying left's id
\* when the backend holds no such Left, and returns Ok only for a Left that exists.
C14_UnknownLeftNotFound ==
    IsGetLinked =>
        /\ ~TaskListExists(op.backend, op.arg.id) =>
               /\ IsErr(op.ret)
               /\ op.ret.val.kind = "NotFound" /\ op.ret.val.id = op.arg.id
        /\ IsOk(op.ret) => TaskListExists(op.backend, op.arg.id)

\* C15: every relationship get_linked_items(left) yields has a Left that is Ok and
\* equal to the given left and a Right that is Ok; the sequence has a length.
C15_YieldedLeftIsGiven ==
    IsGetLinked /\ IsOk(op.ret) =>
        /\ Len(op.ret.val) \in Nat
        /\ \A i \in 1..Len(op.ret.val) :
               /\ IsOk(op.ret.val[i].left) /\ SameFields(op.ret.val[i].left.val, op.arg)
               /\ IsOk(op.ret.val[i].right)

C15_Witness ==
    /\ IsGetLinked /\ op.backend = "TestBackend"
    /\ IsOk(op.ret) /\ Len(op.ret.val) = 2
    /\ op.ret.val[2].left.val = op.arg

\* C16: when the record the database answers with carries an id that is not a
\* UUID, Store::get and Store::create fail with InvalidID naming that id's text:
\* not BackendError, and no entity is returned.
C16_InvalidIdIsDistinct ==
    (IsCreate \/ IsGet) /\ op.backend = "SurrealDb" /\ AnsweredForeignId =>
        /\ op.inner = Err(InvalidID(Id_to_string(op.answer.val[1].id.id)))
        /\ op.ret = op.inner

C16_Witness ==
    /\ IsTaskGet /\ op.backend = "SurrealDb" /\ AnsweredForeignId
    /\ op.answer.val[1].id.id.kind = "Number"
    /\ op.inner = Err(InvalidID("7"))

\* What the blocking CRUD::create returns for the entity and the backend outcome
\* of the last call.
BlockingCreate ==
    IF op.backend = "SurrealDb"
    THEN CRUD_create(SurrealDb_create(op.arg, op.answer)).ret
    ELSE CRUD_create(TestBackend_create(op.arg,
                                        CHOOSE f \in NowV7({op.arg.id}) : TRUE)).ret

\* C17 as stated: the non_blocking CRUD::create returns what the blocking
\* CRUD::create returns for the same Task and the same backend outcome: Ok in the
\* same cases and an error of the same kind otherwise.
C17_AsyncSameAsBlocking ==
    op.name = "non_blocking::CRUD::create" =>
        /\ IsOk(op.ret) <=> IsOk(BlockingCreate)
        /\ IsErr(BlockingCreate) =>
               IsErr(op.ret) /\ op.ret.val.kind = BlockingCreate.val.kind

\* C18: for a continuable relationship, when the returned Right is Ok and equal to
\* the intended Right, Link::create_linked_item returns Ok(()) whatever the
\* returned Left is.
C18_LeftNotReverified ==
    /\ IsLinkCreate /\ Continuable(op.arg)
    /\ IsOk(op.inner) /\ IsOk(op.inner.val.right)
    /\ SameFields(op.inner.val.right.val, op.arg.right.val)
    => op.ret = Ok(Unit)

C18_Witness ==
    /\ IsLinkCreate /\ Continuable(op.arg)
    /\ IsOk(op.inner) /\ IsOk(op.inner.val.right)
    /\ SameFields(op.inner.val.right.val, op.arg.right.val)
    /\ IsOk(op.inner.val.left) /\ op.inner.val.left.val.id # op.arg.left.val.id
    /\ op.ret = Ok(Unit)

\* The backend failed the linked creation: Relate::create_linked_item returned Err
\* or a relationship whose Right slot is Err.
BackendFailed == IsErr(op.inner) \/ (IsOk(op.inner) /\ IsErr(op.inner.val.right))
BackendFailure == IF IsErr(op.inner) THEN op.inner ELSE op.inner.val.right
IsMismatch(r) == IsErr(r) /\ r.val.kind = "Mismatch"

\* C19: for a continuable relationship, Link::create_linked_item ends in Ok(()),
\* in Mismatch or in the backend's failure; it ends in the failure exactly when
\* Relate::create_linked_item returned Err(e) or a Right slot Err(e), and then it
\* returns that e unchanged.
C19_ThreeOutcomes ==
    IsLinkCreate /\ Continuable(op.arg) =>
        /\ BackendFailed => op.ret = BackendFailure /\ ~IsMismatch(op.ret)
        /\ ~BackendFailed => op.ret = Ok(Unit) \/ IsMismatch(op.ret)

C19_Witness ==
    /\ IsLinkCreate /\ Continuable(op.arg) /\ op.backend = "TestBackend"
    /\ IsOk(op.inner) /\ IsErr(op.inner.val.right)
    /\ op.ret = Err(BackendError("Failed to create task"))

\* C20 as stated: CRUD::create, CRUD::get, `?` on a Contains and
\* Link::create_linked_item report every failure as a returned Err; none aborts.
C20_FailuresAreReturned ==
    IsCreate \/ IsGet \/ IsLinkCreate \/ op.name = "Try" => ~IsPanic(op.ret)

C25_LeftResolvedFirst ==
    [][ /\ op'.name = "Link::create_linked_item" /\ op'.backend = "SurrealDb"
        /\ Continuable(op'.arg)
        => /\ ~Holds(tasklists, TaskListThing(op'.arg.left.val.id)) =>
                  /\ op'.ret = Err(NotFound("TaskList", op'.arg.left.val.id))
                  /\ db' = db
           /\ /\ Holds(tasklists, TaskListThing(op'.arg.left.val.id))
              /\ Holds(tasks, TaskThing(op'.arg.right.val.id))
              => IsErr(op'.ret) /\ db' = db ]_vars

C25_Witness ==
    /\ IsLinkCreate /\ op.backend = "SurrealDb" /\ Continuable(op.arg)
    /\ Holds(tasklists, TaskListThing(op.arg.left.val.id))
    /\ op.ret = Err(BackendError("Database record already exists"))
    /\ \A l \in contains : l.out # TaskThing(op.arg.right.val.id)

\* C26: Link::create_linked_item on a broken relationship returns the failing
\* slot's own error unchanged: Left's when Left is Err (also when Right is Err
\* too), Right's when only Right is Err; never Ok.
C26_BrokenReturnsSlotError ==
    IsLinkCreate /\ ~Continuable(op.arg) =>
        /\ op.ret = (IF IsErr(op.arg.left) THEN op.arg.left ELSE op.arg.right)
        /\ ~IsOk(op.ret)

C26_Witness ==
    /\ IsLinkCreate /\ IsErr(op.arg.left) /\ IsErr(op.arg.right)
    /\ op.ret = Err(NotFound("TaskList", OTHER_ID))

\* The name of the entity type a get is for.
EntityTypeName == IF op.name = "CRUD::get" THEN "Task" ELSE "TaskList"

\* C28 as stated: every backend reports a missing record with the entity-type
\* name as itemtype, so the tag for a missing Task is "Task" and the tag for a
\* missing TaskList is "TaskList" on TestBackend and on SurrealDb alike.
C28_SameItemtypeEverywhere ==
    IsGet /\ IsErr(op.ret) /\ op.ret.val.kind = "NotFound" =>
        op.ret.val.itemtype = EntityTypeName

\* C30 as stated: the relationship Relate::create_linked_item returns carries the
\* sortorder of the relationship passed in.
C30_SortorderPreserved ==
    IsLinkCreate /\ IsOk(op.inner) => op.inner.val.sortorder = op.arg.sortorder

IsConvert == op.name = "TryFrom<SlintTask>"

\* C22: converting a SlintTask to a Task: an empty id yields the given name and
\* the newly generated, non-nil id; an id that parses as a UUID yields exactly
\* that identifier and the name; any other id yields Err(InvalidID) carrying the
\* given text, and no Task.
C22_SlintTaskConversion ==
    IsConvert =>
        LET given == op.arg
            parsed == Uuid_try_parse(given.id)
        IN  /\ given.id = "" =>
                   /\ IsOk(op.ret) /\ op.ret.val.name.s = given.name
                   /\ op.ret.val.id = op.answer.val /\ op.ret.val.id # Uuid_nil
            /\ given.id # "" /\ IsOk(parsed) =>
                   /\ IsOk(op.ret) /\ op.ret.val.name.s = given.name
                   /\ op.ret.val.id = parsed.val
            /\ given.id # "" /\ IsErr(parsed) => op.ret = Err(InvalidID(given.id))
            /\ given.id = TASK1_SIMPLE => IsOk(op.ret) /\ op.ret.val.id = TASK1_ID

C22_Witness ==
    /\ IsConvert /\ op.arg = SlintTask("Task 1", "foo")
    /\ op.ret = Err(InvalidID("foo"))

IsUiCreate == op.name = "create_task"
\* The id the window shows: the task_id property, or the id of CurrentTask.task.
ShownId == IF ui.callback = "HelixFlow" THEN ui.task_id ELSE ui.current_task.id

C24_DisabledWhileInFlight ==
    /\ [](ui.request # None => ~ui.create_enabled)
    /\ [][ /\ op' # op /\ op'.name = "on_create_task"
              => ui.request = None /\ ui.create_enabled
           /\ /\ ui.callback = "async" /\ op'.name \notin {"HelixFlow::new", "run_helixflow"}
              /\ ~ui.create_enabled /\ ui'.create_enabled
              => /\ op'.name = "task_creation_request" /\ IsOk(op'.inner)
                 /\ ui.request # None /\ ui'.request = None
                 /\ ui'.task_id = Legacy_id_display(ui.backend, op'.inner.val.id[1]) ]_vars

C24_Witness ==
    /\ op.name = "on_create_task" /\ ui.callback = "async"
    /\ ui.request # None /\ ~ui.create_enabled /\ ui.task_id = ""

IsStart == op.name = "run_helixflow"

C29_AlwaysReenabled == IsUiCreate => ui.create_enabled

====
